---- MODULE Spec2Model ----
(***************************************************************************)
(* The stream frame queue of src/src/source/stream/stream.c: the ordered   *)
(* pending list (xDataFramePending), the insertion and delta-timestamp     *)
(* correction of Kvs_streamAddDataFrame, prvStreamPop, the queries, and    *)
(* the tag-injection functions with their function-local statics.          *)
(*                                                                         *)
(* Spec        one stream, every handler one atomic action (the lock       *)
(*             serialises the handlers that take it).                      *)
(* SpecStreams enqueue, pop, peek and the frame functions on two streams   *)
(*             of one process.                                             *)
(* SpecTags    one stream whose frames go through the tag-injection        *)
(*             functions, failing calls included.                          *)
(* SpecLock    two threads on one stream, each handler split at its Lock   *)
(*             and Unlock calls and at the statements between them.        *)
(* SpecLockLive  SpecLock with threads that keep running.                  *)
(***************************************************************************)
EXTENDS Integers, Sequences, FiniteSets, TLC

(* ------------------------------ bounds --------------------------------- *)
\* frames allocated over a run (Kvs_streamAddDataFrame calls that reach kvsMalloc)
MaxFrames == 3
\* small timestamps are 0..MaxTs
MaxTs == 1
\* tags blocks one frame's header may collect
MaxTagBlocks == 1
\* frames allocated over a run of SpecLock
MaxLockFrames == 2

(* ----------------------------- constants ------------------------------- *)
\* the null DataFrameHandle
NULL == 0
TRACK_VIDEO == "TRACK_VIDEO"
TRACK_AUDIO == "TRACK_AUDIO"
MKV_CLUSTER == "MKV_CLUSTER"
MKV_SIMPLE_BLOCK == "MKV_SIMPLE_BLOCK"
\* a value of MkvClusterType_t that Mkv_getClusterHdrLen does not recognise
MKV_UNKNOWN == "MKV_UNKNOWN"
LOCK_OK == "LOCK_OK"
LOCK_ERROR == "LOCK_ERROR"
KVS_ERRNO_NONE == "KVS_ERRNO_NONE"
KVS_ERROR_INVALID_ARGUMENT == "KVS_ERROR_INVALID_ARGUMENT"
KVS_ERROR_INVALID_CLUSTER_HDR_LEN == "KVS_ERROR_INVALID_CLUSTER_HDR_LEN"
KVS_ERROR_OUT_OF_MEMORY == "KVS_ERROR_OUT_OF_MEMORY"
KVS_ERROR_LOCK_ERROR == "KVS_ERROR_LOCK_ERROR"
KVS_ERROR_STREAM_MKV_IS_NOT_INITIALIZED == "KVS_ERROR_STREAM_MKV_IS_NOT_INITIALIZED"

\* the streams of the process; Spec and SpecLock use the first only
StreamA == "A"
StreamB == "B"
Streams == {StreamA, StreamB}

\* mutant: the difference is kept at full width
Uint16_Wide(x) == x

\* uint16_t conversion of a uint64_t difference (the cast of lines 246, 266, 296)
Uint16(x) == x % 65536

\* uTimestampMs values: small ones, and one more than 65535 ms after 0
TimestampsMs == (0 .. MaxTs) \cup {65536 + 1}
TrackTypes == {TRACK_VIDEO, TRACK_AUDIO}
ClusterTypes == {MKV_CLUSTER, MKV_SIMPLE_BLOCK}

\* DataFrameIn_t descriptors a caller passes (bIsKeyFrame and the payload
\* bytes take part in no decision of stream.c and are left out)
DataFrameIns ==
    [uTimestampMs : TimestampsMs, xTrackType : TrackTypes,
     xClusterType : ClusterTypes, uDataLen : {1}]

\* a descriptor whose cluster kind has no header length
BadClusterIn ==
    [uTimestampMs |-> 0, xTrackType |-> TRACK_VIDEO,
     xClusterType |-> MKV_UNKNOWN, uDataLen |-> 1]

\* the calls of Kvs_streamAddDataFrame that fail, one for each branch of
\* lines 206-226: <<pxDataFrameIn is NULL, descriptor, kvsMalloc succeeds, Lock result>>
FailingAdds ==
    {<<TRUE, BadClusterIn, TRUE, LOCK_OK>>,
     <<FALSE, BadClusterIn, TRUE, LOCK_OK>>,
     <<FALSE, [BadClusterIn EXCEPT !.xClusterType = MKV_CLUSTER], FALSE, LOCK_OK>>,
     <<FALSE, [BadClusterIn EXCEPT !.xClusterType = MKV_CLUSTER], TRUE, LOCK_ERROR>>}

(* ------------------------------- state --------------------------------- *)
VARIABLES
    frame,              \* DataFrame_t by handle: the frames allocated and not freed
    pending,            \* xDataFramePending of each stream: handles, head first
    uEarliestClusterTimestamp,  \* of each stream
    nextHandle,         \* the next DataFrame_t kvsMalloc returns
    streamAlive,        \* the Stream_t and its pMkvEbmlSeg are allocated
    firstClusterSeen,   \* static of Kvs_dataFrameAddTags
    calledAlready,      \* static of addTagsAtEnd
    isoFrame,           \* reference run: the frame table had the statics been per stream
    isoStatics,         \* reference run: firstClusterSeen and calledAlready of each stream
    tagged,             \* history: the frames Kvs_dataFrameAddTags succeeded on, in call order
    tagOrderKept,       \* history: those calls were made once per frame, in dequeue order
    appendCount,        \* history: how many times addTagsAtEnd appended its tags block
    pc,                 \* SpecLock: where each thread stands in its handler
    loc,                \* SpecLock: each thread's call: its arguments, locals and result
    lockOwner,          \* SpecLock: the thread holding xLock, or NoThread
    lastClusterOut,     \* history: timestamp of the last ClusterHead each stream popped
    popLog,             \* history: the handles Kvs_streamPop returned, in order
    peeked              \* SpecLock history: the consumer's last peek, until its next pop

vars == <<frame, pending, uEarliestClusterTimestamp, nextHandle, streamAlive,
          firstClusterSeen, calledAlready, isoFrame, isoStatics, tagged, tagOrderKept,
          appendCount, pc, loc, lockOwner,
          lastClusterOut, popLog, peeked>>

\* the variables of the threads
lockVars == <<pc, loc, lockOwner, peeked>>

\* the variables of the tag-injection functions
tagVars == <<firstClusterSeen, calledAlready, isoStatics, tagged, tagOrderKept, appendCount>>

(* --------------------------- HeaderCodec ------------------------------- *)
\* Mkv_getClusterHdrLen: the header length of a cluster kind, 0 if unrecognised
Mkv_getClusterHdrLen(xClusterType) ==
    CASE xClusterType = MKV_CLUSTER -> 2
      [] xClusterType = MKV_SIMPLE_BLOCK -> 1
      [] OTHER -> 0

\* Mkv_initializeClusterHdr: the header rendered into a buffer of uMkvHdrLen
\* bytes holding `old`; a buffer of another size than the cluster kind's is
\* rejected and keeps its bytes
Mkv_initializeClusterHdr(old, uMkvHdrLen, xClusterType, uDataLen, uDeltaTimestampMs) ==
    IF uMkvHdrLen = Mkv_getClusterHdrLen(xClusterType)
    THEN [old EXCEPT !.rendered = TRUE, !.size = uDataLen, !.delta = uDeltaTimestampMs]
    ELSE old

\* the header buffer right after kvsMalloc: nothing rendered yet
BlankHdr == [rendered |-> FALSE, tags |-> <<>>, size |-> 0, delta |-> 0]

(* ------------------------ Kvs_streamAddDataFrame ----------------------- *)
\* the insertion scan of lines 237-262 from list item i on: where the new
\* frame is linked (before item pos, or nowhere: bListAdded FALSE) and the
\* running uClusterTimestamp when the scan stops
\* mutant: the Video tie-break of line 243 is dropped
InsertsBefore_NoTie(in, cur) == in.uTimestampMs < cur.uTimestampMs

\* mutant: a new frame of any track goes before a frame of its timestamp
InsertsBefore_AnyTie(in, cur) == in.uTimestampMs <= cur.uTimestampMs

\* the test of lines 242-243: the new frame goes before list item cur
InsertsBefore(in, cur) ==
    \/ in.uTimestampMs < cur.uTimestampMs
    \/ (in.uTimestampMs = cur.uTimestampMs /\ in.xTrackType = TRACK_VIDEO)

RECURSIVE InsertScan(_, _, _, _, _)
InsertScan(fr, list, in, i, uClusterTimestamp) ==
    IF i > Len(list)
    THEN [bListAdded |-> FALSE, pos |-> i, uClusterTimestamp |-> uClusterTimestamp]
    ELSE LET cur == fr[list[i]] IN
         IF InsertsBefore(in, cur)
         THEN [bListAdded |-> TRUE, pos |-> i, uClusterTimestamp |-> uClusterTimestamp]
         ELSE InsertScan(fr, list, in, i + 1,
                         IF cur.xClusterType = MKV_CLUSTER
                         THEN cur.uTimestampMs ELSE uClusterTimestamp)

\* mutant: the frame is always linked at the tail
InsertAt_Tail(list, pos, h) == Append(list, h)

\* list with handle h linked before item pos (DList_InsertTailList on that
\* item, or on the list head when pos is past the end)
InsertAt(list, pos, h) ==
    SubSeq(list, 1, pos - 1) \o <<h>> \o SubSeq(list, pos, Len(list))

\* uDeltaTimestampMs of the new frame: lines 246-253 when the scan linked it
\* before an item, line 266 when it is appended
NewDelta(in, scan) ==
    IF scan.bListAdded /\ in.xClusterType = MKV_CLUSTER
    THEN 0
    ELSE Uint16(in.uTimestampMs - scan.uClusterTimestamp)

\* mutant: the correction pass is never asked for
NeedCorrect_Never(in, scan) == FALSE

\* bNeedCorrectDeltaTimestamp, line 252
NeedCorrect(in, scan) == scan.bListAdded /\ in.xClusterType = MKV_CLUSTER

\* the correction pass of lines 281-309 from list item i on
RECURSIVE CorrectPass(_, _, _, _, _)
CorrectPass(fr, list, i, uClusterTimestamp, bStarted) ==
    IF i > Len(list) THEN fr
    ELSE LET cur == fr[list[i]]
             isHead == cur.xClusterType = MKV_CLUSTER
             cts == IF isHead THEN cur.uTimestampMs ELSE uClusterTimestamp
             started == bStarted \/ isHead
             fr2 == IF started
                    THEN [fr EXCEPT ![list[i]].hdr =
                            Mkv_initializeClusterHdr(cur.hdr, cur.uMkvHdrLen,
                                cur.xClusterType, cur.uDataLen,
                                Uint16(cur.uTimestampMs - cts))]
                    ELSE fr
         IN CorrectPass(fr2, list, i + 1, cts, started)

\* the DataFrame_t of lines 229-234, its header not yet rendered
NewFrame(s, in) ==
    [stream |-> s, uTimestampMs |-> in.uTimestampMs, xTrackType |-> in.xTrackType,
     xClusterType |-> in.xClusterType, uDataLen |-> in.uDataLen,
     pData |-> "caller", callerDataFreed |-> FALSE, dataTags |-> <<>>,
     hdrOnHeap |-> FALSE, uMkvHdrLen |-> Mkv_getClusterHdrLen(in.xClusterType), hdr |-> BlankHdr]

\* lines 237-269: the frame table and the list once the new frame is linked
LinkFrame(fr, list, s, in, h) ==
    LET scan == InsertScan(fr, list, in, 1, uEarliestClusterTimestamp[s])
    IN [fr |-> fr @@ (h :> NewFrame(s, in)),
        list |-> InsertAt(list, scan.pos, h),
        scan |-> scan]

\* lines 271-279: the new frame's header rendered
RenderNew(fr, h, in, scan) ==
    [fr EXCEPT ![h].hdr = Mkv_initializeClusterHdr(fr[h].hdr, fr[h].uMkvHdrLen,
                              in.xClusterType, in.uDataLen, NewDelta(in, scan))]

\* mutant: the correction pass starts at the new frame, not at the list head
CorrectAll_FromNew(fr, list, in, scan) ==
    IF NeedCorrect(in, scan)
    THEN CorrectPass(fr, list, scan.pos, scan.uClusterTimestamp, FALSE)
    ELSE fr

\* mutant: every enqueue re-renders the whole list
CorrectAll_Always(fr, list, in, scan) ==
    CorrectPass(fr, list, 1, scan.uClusterTimestamp, TRUE)

\* lines 281-309
CorrectAll(fr, list, in, scan) ==
    IF NeedCorrect(in, scan)
    THEN CorrectPass(fr, list, 1, scan.uClusterTimestamp, FALSE)
    ELSE fr

\* the result code of lines 206-226
AddDataFrameRes(inNull, in, mallocOk, lockRes) ==
    IF inNull THEN KVS_ERROR_INVALID_ARGUMENT
    ELSE IF Mkv_getClusterHdrLen(in.xClusterType) = 0 THEN KVS_ERROR_INVALID_CLUSTER_HDR_LEN
    ELSE IF ~mallocOk THEN KVS_ERROR_OUT_OF_MEMORY
    ELSE IF lockRes # LOCK_OK THEN KVS_ERROR_LOCK_ERROR
    ELSE KVS_ERRNO_NONE

\* the handle Kvs_streamAddDataFrame returns, line 323
AddDataFrameValue(inNull, in, mallocOk, lockRes, h) ==
    IF AddDataFrameRes(inNull, in, mallocOk, lockRes) = KVS_ERRNO_NONE THEN h ELSE NULL

\* the frame table and the list of stream s after the call
AddDataFrameOut(fr, list, s, inNull, in, mallocOk, lockRes, h) ==
    IF AddDataFrameRes(inNull, in, mallocOk, lockRes) = KVS_ERRNO_NONE
    THEN LET l == LinkFrame(fr, list, s, in, h)
             r == RenderNew(l.fr, h, in, l.scan)
         IN [fr |-> CorrectAll(r, l.list, in, l.scan), list |-> l.list]
    ELSE [fr |-> fr, list |-> list]

Kvs_streamAddDataFrame(s, inNull, in, mallocOk, lockRes) ==
    LET val == AddDataFrameValue(inNull, in, mallocOk, lockRes, nextHandle)
        out == AddDataFrameOut(frame, pending[s], s, inNull, in, mallocOk, lockRes, nextHandle)
    IN /\ streamAlive[s]
       /\ val # NULL => nextHandle <= MaxFrames
       /\ frame' = out.fr
       /\ isoFrame' = AddDataFrameOut(isoFrame, pending[s], s, inNull, in, mallocOk,
                                      lockRes, nextHandle).fr
       /\ pending' = [pending EXCEPT ![s] = out.list]
       /\ nextHandle' = IF val # NULL THEN nextHandle + 1 ELSE nextHandle
       /\ UNCHANGED <<uEarliestClusterTimestamp, streamAlive, tagVars, lockVars,
                      lastClusterOut, popLog>>

(* ----------------------------- prvStreamPop ---------------------------- *)
\* mutant: the item behind the head is returned when there is one
PopValue_Second(list, lockRes) ==
    IF lockRes # LOCK_OK THEN NULL
    ELSE IF list = <<>> THEN NULL
    ELSE IF Len(list) >= 2 THEN list[2]
    ELSE Head(list)

\* the handle prvStreamPop returns, lines 71-108
PopValue(list, lockRes) ==
    IF lockRes # LOCK_OK THEN NULL
    ELSE IF list = <<>> THEN NULL
    ELSE Head(list)

\* mutant: the head is read and left linked
PopList_Keep(list, bPeek) == list

\* the list after lines 85-92
PopList(list, bPeek) == IF bPeek THEN list ELSE Tail(list)

\* mutant: the baseline never advances
PopBaseline_Keep(old, popped, bPeek) == old

\* mutant: the baseline follows every popped frame, ClusterHead or not
PopBaseline_AnyFrame(old, popped, bPeek) ==
    IF ~bPeek THEN popped.uTimestampMs ELSE old

\* mutant: the baseline follows a ClusterHead that is only peeked
PopBaseline_PeekAdvances(old, popped, bPeek) ==
    IF popped.xClusterType = MKV_CLUSTER THEN popped.uTimestampMs ELSE old

\* uEarliestClusterTimestamp after lines 95-101
PopBaseline(old, popped, bPeek) ==
    IF ~bPeek /\ popped.xClusterType = MKV_CLUSTER THEN popped.uTimestampMs ELSE old

prvStreamPop(s, bPeek, lockRes) ==
    LET h == PopValue(pending[s], lockRes) IN
    /\ streamAlive[s]
    /\ IF h = NULL
       THEN UNCHANGED <<pending, uEarliestClusterTimestamp, lastClusterOut, popLog>>
       ELSE /\ pending' = [pending EXCEPT ![s] = PopList(@, bPeek)]
            /\ uEarliestClusterTimestamp' =
                  [uEarliestClusterTimestamp EXCEPT ![s] = PopBaseline(@, frame[h], bPeek)]
            /\ lastClusterOut' =
                  IF ~bPeek /\ frame[h].xClusterType = MKV_CLUSTER
                  THEN [lastClusterOut EXCEPT
                          ![s] = [any |-> TRUE, ts |-> frame[h].uTimestampMs]]
                  ELSE lastClusterOut
            /\ popLog' = IF bPeek THEN popLog ELSE Append(popLog, h)
    /\ UNCHANGED <<frame, isoFrame, nextHandle, streamAlive, tagVars, lockVars>>

Kvs_streamPop(s, lockRes) == prvStreamPop(s, FALSE, lockRes)

Kvs_streamPeek(s, lockRes) == prvStreamPop(s, TRUE, lockRes)

(* ------------------------------- queries ------------------------------ *)
\* what Kvs_streamIsEmpty returns, lines 338-357
IsEmptyValue(list, lockRes) ==
    IF lockRes # LOCK_OK THEN TRUE ELSE list = <<>>

Kvs_streamIsEmpty(s, lockRes) ==
    /\ streamAlive[s]
    /\ IsEmptyValue(pending[s], lockRes) \in BOOLEAN
    /\ UNCHANGED vars

\* mutant: the scan stops after the first item
TrackScan_HeadOnly(fr, list, xTrackType, i) ==
    i <= Len(list) /\ fr[list[i]].xTrackType = xTrackType

\* the scan of lines 376-388 from list item i on
RECURSIVE TrackScan(_, _, _, _)
TrackScan(fr, list, xTrackType, i) ==
    IF i > Len(list) THEN FALSE
    ELSE IF fr[list[i]].xTrackType = xTrackType THEN TRUE
    ELSE TrackScan(fr, list, xTrackType, i + 1)

\* what Kvs_streamAvailOnTrack returns, lines 362-394
AvailOnTrackValue(fr, list, xTrackType, lockRes) ==
    IF lockRes # LOCK_OK THEN FALSE ELSE TrackScan(fr, list, xTrackType, 1)

Kvs_streamAvailOnTrack(s, xTrackType, lockRes) ==
    /\ streamAlive[s]
    /\ AvailOnTrackValue(frame, pending[s], xTrackType, lockRes) \in BOOLEAN
    /\ UNCHANGED vars

\* sizeof(Stream_t) and sizeof(DataFrame_t), in units of the model
SizeofStream == 9
SizeofDataFrame == 5
\* uMkvEbmlSegLen, set once by Kvs_streamCreate
SegLen == 3

\* mutant: the header length is left out of a frame's share
FrameMem_NoHdr(f) == f.uDataLen + SizeofDataFrame

\* what lines 425-426 add for one frame
FrameMem(f) == f.uDataLen + SizeofDataFrame + f.uMkvHdrLen

\* the loop of lines 420-428 from list item i on
RECURSIVE MemScan(_, _, _, _)
MemScan(fr, list, i, uMemTotal) ==
    IF i > Len(list) THEN uMemTotal
    ELSE MemScan(fr, list, i + 1, uMemTotal + FrameMem(fr[list[i]]))

\* what Kvs_streamMemStatTotal returns and stores, lines 399-434
MemStatTotalValue(fr, list, outNull, lockRes) ==
    IF outNull THEN [res |-> KVS_ERROR_INVALID_ARGUMENT, set |-> FALSE, total |-> 0]
    ELSE IF lockRes # LOCK_OK THEN [res |-> KVS_ERROR_LOCK_ERROR, set |-> FALSE, total |-> 0]
    ELSE [res |-> KVS_ERRNO_NONE, set |-> TRUE,
          total |-> MemScan(fr, list, 1, SizeofStream + SegLen)]

Kvs_streamMemStatTotal(s, outNull, lockRes) ==
    /\ streamAlive[s]
    /\ MemStatTotalValue(frame, pending[s], outNull, lockRes).total >= 0
    /\ UNCHANGED vars

\* what Kvs_streamGetMkvEbmlSegHdr returns, lines 169-188; it takes no lock
GetMkvEbmlSegHdrValue(outNull) ==
    IF outNull THEN [res |-> KVS_ERROR_INVALID_ARGUMENT, len |-> 0]
    ELSE IF SegLen = 0 THEN [res |-> KVS_ERROR_STREAM_MKV_IS_NOT_INITIALIZED, len |-> 0]
    ELSE [res |-> KVS_ERRNO_NONE, len |-> SegLen]

Kvs_streamGetMkvEbmlSegHdr(s, outNull) ==
    /\ streamAlive[s]
    /\ GetMkvEbmlSegHdrValue(outNull).len >= 0
    /\ UNCHANGED vars

\* lines 157-164: the segment header, the lock and the Stream_t are freed;
\* the frames of xDataFramePending are not walked
Kvs_streamTermintate(s) ==
    /\ streamAlive[s]
    /\ streamAlive' = [streamAlive EXCEPT ![s] = FALSE]
    /\ UNCHANGED <<frame, isoFrame, pending, uEarliestClusterTimestamp, nextHandle,
                   tagVars, lockVars, lastClusterOut, popLog>>

(* ---------------------------- tag injection ---------------------------- *)
\* tagsListLen values a caller passes
TagsListLens == {1}

\* Mkv_initializeTagsHdr: the tags block rendered from n tags, the last of
\* them the end-of-fragment marker when eof
Mkv_initializeTagsHdr(n, eof) == [n |-> n, eof |-> eof, size |-> 2 + n]

\* what Kvs_dataFrameGetContent returns and stores, lines 439-455
DataFrameGetContentValue(f, outNull) ==
    IF outNull THEN [res |-> KVS_ERROR_INVALID_ARGUMENT, set |-> FALSE]
    ELSE [res |-> KVS_ERRNO_NONE, set |-> TRUE, hdr |-> f.hdr, hdrLen |-> f.uMkvHdrLen,
          pData |-> f.pData, dataLen |-> f.uDataLen]

Kvs_dataFrameGetContent(h, outNull) ==
    /\ h \in DOMAIN frame
    /\ DataFrameGetContentValue(frame[h], outNull).set \in BOOLEAN
    /\ UNCHANGED vars

\* mutant: the header length is not updated
PrependTags_KeepLen(f, tagsHdr) ==
    [f EXCEPT !.hdr.tags = <<tagsHdr>> \o @,
              !.hdrOnHeap = TRUE]

\* lines 627-645: the new header is the tags block followed by the original
\* header; the frame points at it
PrependTags(f, tagsHdr) ==
    [f EXCEPT !.hdr.tags = <<tagsHdr>> \o @,
              !.uMkvHdrLen = tagsHdr.size + @,
              !.hdrOnHeap = TRUE]

\* Kvs_dataFrameAddTags, lines 564-655, on frame f with the static
\* firstClusterSeen equal to first: the frame and the static after the call,
\* the result code, and whether the four outputs were stored
AddTagsOut(f, first, tagsListLen, endOfStream, outNull, tagsOk, mallocOk) ==
    IF f.xClusterType # MKV_CLUSTER
    THEN [f |-> f, first |-> first, res |-> KVS_ERRNO_NONE, set |-> FALSE]
    ELSE IF outNull
    THEN [f |-> f, first |-> first, res |-> KVS_ERROR_INVALID_ARGUMENT, set |-> FALSE]
    ELSE IF ~first
    THEN [f |-> f, first |-> TRUE, res |-> KVS_ERRNO_NONE, set |-> TRUE]
    ELSE IF ~tagsOk \/ ~mallocOk
    THEN [f |-> f, first |-> first, res |-> KVS_ERROR_OUT_OF_MEMORY, set |-> FALSE]
    ELSE LET tagsHdr == Mkv_initializeTagsHdr(
                            IF endOfStream THEN tagsListLen + 1 ELSE tagsListLen,
                            endOfStream)
         IN [f |-> PrependTags(f, tagsHdr),
             first |-> first, res |-> KVS_ERRNO_NONE, set |-> TRUE]

\* frame h is the next dequeued frame Kvs_dataFrameAddTags has not succeeded on
InDequeueOrder(h) ==
    /\ Len(tagged) < Len(popLog)
    /\ popLog[Len(tagged) + 1] = h
    /\ \A k \in 1 .. Len(tagged) : tagged[k].h = popLog[k]

\* `logged`: the call is recorded in the history variables
Kvs_dataFrameAddTags(h, tagsListLen, endOfStream, outNull, tagsOk, mallocOk, logged) ==
    /\ h \in DOMAIN frame
    /\ LET s == frame[h].stream
           out == AddTagsOut(frame[h], firstClusterSeen, tagsListLen, endOfStream,
                             outNull, tagsOk, mallocOk)
           iso == AddTagsOut(isoFrame[h], isoStatics[s].firstClusterSeen, tagsListLen,
                             endOfStream, outNull, tagsOk, mallocOk)
       IN /\ Len(out.f.hdr.tags) <= MaxTagBlocks
          /\ Len(iso.f.hdr.tags) <= MaxTagBlocks
          /\ frame' = [frame EXCEPT ![h] = out.f]
          /\ firstClusterSeen' = out.first
          /\ isoFrame' = [isoFrame EXCEPT ![h] = iso.f]
          /\ isoStatics' = [isoStatics EXCEPT ![s].firstClusterSeen = iso.first]
          /\ IF logged /\ out.res = KVS_ERRNO_NONE
             THEN IF tagOrderKept /\ InDequeueOrder(h)
                  THEN /\ tagged' = Append(tagged, [h |-> h, xClusterType |-> frame[h].xClusterType])
                       /\ UNCHANGED tagOrderKept
                  ELSE /\ tagOrderKept' = FALSE
                       /\ UNCHANGED tagged
             ELSE UNCHANGED <<tagged, tagOrderKept>>
    /\ UNCHANGED <<pending, uEarliestClusterTimestamp, nextHandle, streamAlive,
                   calledAlready, appendCount, lockVars, lastClusterOut, popLog>>

\* mutant: a failing path releases the payload before it returns
AtEndFailed_FreesData(f) == [f EXCEPT !.callerDataFreed = TRUE]

\* the frame after a failing path of addTagsAtEnd, lines 679-711: only the
\* tags list copy and the tags buffer are freed
AtEndFailed(f) == f

\* addTagsAtEnd, lines 657-738, on frame f with the static calledAlready
\* equal to called
AddTagsAtEndOut(f, called, tagsListLen, argNull, listMallocOk, tagsOk, dataMallocOk) ==
    IF argNull
    THEN [f |-> f, called |-> called, res |-> KVS_ERROR_INVALID_ARGUMENT, set |-> FALSE]
    ELSE IF called
    THEN [f |-> f, called |-> called, res |-> KVS_ERRNO_NONE, set |-> FALSE]
    ELSE IF ~listMallocOk \/ ~tagsOk \/ ~dataMallocOk
    THEN [f |-> AtEndFailed(f), called |-> TRUE, res |-> KVS_ERROR_OUT_OF_MEMORY, set |-> FALSE]
    ELSE LET tagsHdr == Mkv_initializeTagsHdr(tagsListLen + 1, TRUE)
         IN [f |-> [f EXCEPT !.dataTags = @ \o <<tagsHdr>>,
                             !.uDataLen = @ + tagsHdr.size,
                             !.callerDataFreed = @ \/ f.pData = "caller",
                             !.pData = "heap"],
             called |-> TRUE, res |-> KVS_ERRNO_NONE, set |-> TRUE]

addTagsAtEnd(h, tagsListLen, argNull, listMallocOk, tagsOk, dataMallocOk) ==
    /\ h \in DOMAIN frame
    /\ LET s == frame[h].stream
           out == AddTagsAtEndOut(frame[h], calledAlready, tagsListLen, argNull,
                                  listMallocOk, tagsOk, dataMallocOk)
           iso == AddTagsAtEndOut(isoFrame[h], isoStatics[s].calledAlready, tagsListLen,
                                  argNull, listMallocOk, tagsOk, dataMallocOk)
       IN /\ frame' = [frame EXCEPT ![h] = out.f]
          /\ calledAlready' = out.called
          /\ isoFrame' = [isoFrame EXCEPT ![h] = iso.f]
          /\ isoStatics' = [isoStatics EXCEPT ![s].calledAlready = iso.called]
          /\ appendCount' = IF out.f.dataTags # frame[h].dataTags
                            THEN appendCount + 1 ELSE appendCount
    /\ UNCHANGED <<pending, uEarliestClusterTimestamp, nextHandle, streamAlive,
                   firstClusterSeen, tagged, tagOrderKept, lockVars, lastClusterOut, popLog>>

\* a handle linked in some stream's pending list
Resident(h) == \E s \in Streams : \E i \in 1 .. Len(pending[s]) : pending[s][i] = h

\* table fr without handle h
Without(fr, h) == [x \in DOMAIN fr \ {h} |-> fr[x]]

\* Kvs_dataFrameTerminate, lines 741-749: the DataFrame_t is freed; callers
\* pass a frame they popped
Kvs_dataFrameTerminate(h) ==
    /\ h \in DOMAIN frame
    /\ ~Resident(h)
    /\ frame' = Without(frame, h)
    /\ isoFrame' = Without(isoFrame, h)
    /\ UNCHANGED <<pending, uEarliestClusterTimestamp, nextHandle, streamAlive,
                   tagVars, lockVars, lastClusterOut, popLog>>

(* ------------------------------- threads ------------------------------- *)
\* spec section 5: one producer thread and one consumer thread share a stream
Producer == "producer"
Consumer == "consumer"
Threads == {Producer, Consumer}
NoThread == "nobody"

\* the functions of stream.c a thread may be inside
OP_ADD == "Kvs_streamAddDataFrame"
OP_POP == "Kvs_streamPop"
OP_PEEK == "Kvs_streamPeek"
OP_ISEMPTY == "Kvs_streamIsEmpty"
OP_AVAIL == "Kvs_streamAvailOnTrack"
OP_MEMSTAT == "Kvs_streamMemStatTotal"
OP_SEGHDR == "Kvs_streamGetMkvEbmlSegHdr"
OP_TERMINATE == "Kvs_streamTermintate"
OP_NONE == "none"

\* the functions that call Lock(pxStream->xLock)
LockingOps == {OP_ADD, OP_POP, OP_PEEK, OP_ISEMPTY, OP_AVAIL, OP_MEMSTAT}

\* what a call hands back: the handle returned, the bool returned, the
\* result code, the total stored through puMemTotal
NoVal == [h |-> NULL, b |-> FALSE, res |-> KVS_ERRNO_NONE, total |-> 0]

\* the locals of Kvs_streamAddDataFrame the scan leaves, lines 200-203
NoScan == [bListAdded |-> FALSE, pos |-> 1, uClusterTimestamp |-> 0]

\* a thread outside stream.c
IdleLoc ==
    [op |-> OP_NONE, in |-> BadClusterIn, arg |-> TRACK_VIDEO, h |-> NULL,
     scan |-> NoScan, lock |-> "untried", val |-> NoVal]

\* what each locking function hands back once Lock() has returned LOCK_OK,
\* on frame table fr and pending list `list`
LockedValue(op, arg, fr, list) ==
    CASE op = OP_POP -> [NoVal EXCEPT !.h = PopValue(list, LOCK_OK)]
      [] op = OP_PEEK -> [NoVal EXCEPT !.h = PopValue(list, LOCK_OK)]
      [] op = OP_ISEMPTY -> [NoVal EXCEPT !.b = IsEmptyValue(list, LOCK_OK)]
      [] op = OP_AVAIL -> [NoVal EXCEPT !.b = AvailOnTrackValue(fr, list, arg, LOCK_OK)]
      [] op = OP_MEMSTAT ->
            [NoVal EXCEPT !.res = MemStatTotalValue(fr, list, FALSE, LOCK_OK).res,
                          !.total = MemStatTotalValue(fr, list, FALSE, LOCK_OK).total]

\* what each locking function hands back when Lock() fails: lines 71-74 and
\* 108, 222-226 and 314-323, 343-346 and 357, 370-373 and 394, 411-415
LockFailedValue(op, arg) ==
    CASE op = OP_ADD ->
            [NoVal EXCEPT !.h = AddDataFrameValue(FALSE, BadClusterIn, TRUE, LOCK_ERROR, NULL),
                          !.res = KVS_ERROR_LOCK_ERROR]
      [] op = OP_POP -> [NoVal EXCEPT !.h = PopValue(<<>>, LOCK_ERROR)]
      [] op = OP_PEEK -> [NoVal EXCEPT !.h = PopValue(<<>>, LOCK_ERROR)]
      [] op = OP_ISEMPTY -> [NoVal EXCEPT !.b = IsEmptyValue(<<>>, LOCK_ERROR)]
      [] op = OP_AVAIL -> [NoVal EXCEPT !.b = AvailOnTrackValue(<<>>, <<>>, arg, LOCK_ERROR)]
      [] op = OP_MEMSTAT ->
            [NoVal EXCEPT !.res = MemStatTotalValue(<<>>, <<>>, FALSE, LOCK_ERROR).res]

\* no peek made since the last pop
NoPeek == [h |-> NULL, hdr |-> BlankHdr, before |-> FALSE, pass |-> FALSE]

\* the position of handle h in list
IndexOf(list, h) == CHOOSE i \in 1 .. Len(list) : list[i] = h

\* no thread is inside Kvs_streamTermintate: the caller ends a stream only
\* once, and calls nothing on it afterwards
CanCall(t) ==
    /\ pc[t] = "idle"
    /\ streamAlive[StreamA]
    /\ \A u \in Threads : loc[u].op # OP_TERMINATE

\* mutant: the frame of a failed call is not freed
FreeOnFailure_Leak(fr, h) == fr

\* lines 314-321: a failed call frees the frame it had allocated
FreeOnFailure(fr, h) == Without(fr, h)

\* Kvs_streamAddDataFrame up to its call of Lock(), lines 206-221. The block
\* kvsMalloc returns enters the frame table with the fields lines 229-234
\* write under the lock; nothing reads them before that.
AddDataFrame_Call(t, inNull, in, mallocOk) ==
    LET res == AddDataFrameRes(inNull, in, mallocOk, LOCK_OK) IN
    /\ CanCall(t)
    /\ IF res # KVS_ERRNO_NONE
       THEN /\ pc' = [pc EXCEPT ![t] = "done"]
            /\ loc' = [loc EXCEPT ![t] =
                         [IdleLoc EXCEPT !.op = OP_ADD, !.val = [NoVal EXCEPT !.res = res]]]
            /\ UNCHANGED <<frame, isoFrame, nextHandle>>
       ELSE /\ nextHandle <= MaxLockFrames
            /\ pc' = [pc EXCEPT ![t] = "lock"]
            /\ loc' = [loc EXCEPT ![t] =
                         [IdleLoc EXCEPT !.op = OP_ADD, !.in = in, !.h = nextHandle]]
            /\ frame' = frame @@ (nextHandle :> NewFrame(StreamA, in))
            /\ isoFrame' = isoFrame @@ (nextHandle :> NewFrame(StreamA, in))
            /\ nextHandle' = nextHandle + 1
    /\ UNCHANGED <<pending, uEarliestClusterTimestamp, streamAlive, tagVars, lockOwner,
                   lastClusterOut, popLog, peeked>>

\* the other locking functions up to their call of Lock(), with valid arguments
Locked_Call(t, op, arg) ==
    /\ CanCall(t)
    /\ pc' = [pc EXCEPT ![t] = "lock"]
    /\ loc' = [loc EXCEPT ![t] = [IdleLoc EXCEPT !.op = op, !.arg = arg]]
    /\ UNCHANGED <<frame, isoFrame, pending, uEarliestClusterTimestamp, nextHandle,
                   streamAlive, tagVars, lockOwner, lastClusterOut, popLog, peeked>>

\* Lock(pxStream->xLock) returns lockRes: LOCK_OK once the lock is free and
\* taken, anything else at any time. On failure the function returns, lines
\* 71-74, 222-226 and 314-321, 343-346, 370-373, 411-415.
Lock(t, lockRes) ==
    /\ pc[t] = "lock"
    /\ IF lockRes = LOCK_OK
       THEN /\ lockOwner = NoThread
            /\ lockOwner' = t
            /\ pc' = [pc EXCEPT ![t] = IF loc[t].op = OP_ADD THEN "add_link" ELSE "cs"]
            /\ loc' = [loc EXCEPT ![t].lock = LOCK_OK]
            /\ UNCHANGED <<frame, isoFrame>>
       ELSE /\ pc' = [pc EXCEPT ![t] = "done"]
            /\ loc' = [loc EXCEPT ![t].lock = LOCK_ERROR,
                                  ![t].val = LockFailedValue(loc[t].op, loc[t].arg)]
            /\ frame' = IF loc[t].op = OP_ADD THEN FreeOnFailure(frame, loc[t].h) ELSE frame
            /\ isoFrame' = IF loc[t].op = OP_ADD THEN FreeOnFailure(isoFrame, loc[t].h)
                           ELSE isoFrame
            /\ UNCHANGED lockOwner
    /\ UNCHANGED <<pending, uEarliestClusterTimestamp, nextHandle, streamAlive, tagVars,
                   lastClusterOut, popLog, peeked>>

\* lines 229-269: the frame is initialised and linked
AddDataFrame_Link(t) ==
    LET l == LinkFrame(frame, pending[StreamA], StreamA, loc[t].in, loc[t].h) IN
    /\ pc[t] = "add_link"
    /\ frame' = l.fr
    /\ isoFrame' = LinkFrame(isoFrame, pending[StreamA], StreamA, loc[t].in, loc[t].h).fr
    /\ pending' = [pending EXCEPT ![StreamA] = l.list]
    /\ loc' = [loc EXCEPT ![t].scan = l.scan]
    /\ pc' = [pc EXCEPT ![t] = "add_render"]
    /\ peeked' = IF peeked.h # NULL /\ l.scan.pos <= IndexOf(pending[StreamA], peeked.h)
                 THEN [peeked EXCEPT !.before = TRUE] ELSE peeked
    /\ UNCHANGED <<uEarliestClusterTimestamp, nextHandle, streamAlive, tagVars, lockOwner,
                   lastClusterOut, popLog>>

\* lines 271-279: the new frame's header is rendered
AddDataFrame_Render(t) ==
    /\ pc[t] = "add_render"
    /\ frame' = RenderNew(frame, loc[t].h, loc[t].in, loc[t].scan)
    /\ isoFrame' = RenderNew(isoFrame, loc[t].h, loc[t].in, loc[t].scan)
    /\ pc' = [pc EXCEPT ![t] = "add_correct"]
    /\ UNCHANGED <<pending, uEarliestClusterTimestamp, nextHandle, streamAlive, tagVars,
                   loc, lockOwner, lastClusterOut, popLog, peeked>>

\* lines 281-309: the correction pass
AddDataFrame_Correct(t) ==
    /\ pc[t] = "add_correct"
    /\ frame' = CorrectAll(frame, pending[StreamA], loc[t].in, loc[t].scan)
    /\ isoFrame' = CorrectAll(isoFrame, pending[StreamA], loc[t].in, loc[t].scan)
    /\ loc' = [loc EXCEPT ![t].val = [NoVal EXCEPT !.h = loc[t].h]]
    /\ pc' = [pc EXCEPT ![t] = "unlock"]
    /\ peeked' = IF peeked.h # NULL /\ NeedCorrect(loc[t].in, loc[t].scan)
                 THEN [peeked EXCEPT !.pass = TRUE] ELSE peeked
    /\ UNCHANGED <<pending, uEarliestClusterTimestamp, nextHandle, streamAlive, tagVars,
                   lockOwner, lastClusterOut, popLog>>

\* the locked part of prvStreamPop (lines 77-102), Kvs_streamIsEmpty (349-352),
\* Kvs_streamAvailOnTrack (376-388) and Kvs_streamMemStatTotal (418-430)
CriticalSection(t) ==
    LET val == LockedValue(loc[t].op, loc[t].arg, frame, pending[StreamA])
        bPeek == loc[t].op # OP_POP
    IN
    /\ pc[t] = "cs"
    /\ IF loc[t].op \in {OP_POP, OP_PEEK} /\ val.h # NULL
       THEN /\ pending' = [pending EXCEPT ![StreamA] = PopList(@, bPeek)]
            /\ uEarliestClusterTimestamp' =
                  [uEarliestClusterTimestamp EXCEPT
                      ![StreamA] = PopBaseline(@, frame[val.h], bPeek)]
            /\ lastClusterOut' =
                  IF ~bPeek /\ frame[val.h].xClusterType = MKV_CLUSTER
                  THEN [lastClusterOut EXCEPT
                          ![StreamA] = [any |-> TRUE, ts |-> frame[val.h].uTimestampMs]]
                  ELSE lastClusterOut
            /\ popLog' = IF bPeek THEN popLog ELSE Append(popLog, val.h)
       ELSE UNCHANGED <<pending, uEarliestClusterTimestamp, lastClusterOut, popLog>>
    /\ loc' = [loc EXCEPT ![t].val = val]
    /\ pc' = [pc EXCEPT ![t] = "unlock"]
    /\ peeked' = CASE loc[t].op = OP_POP -> NoPeek
                   [] loc[t].op = OP_PEEK ->
                        IF val.h = NULL THEN NoPeek
                        ELSE [NoPeek EXCEPT !.h = val.h, !.hdr = frame[val.h].hdr]
                   [] OTHER -> peeked
    /\ UNCHANGED <<frame, isoFrame, nextHandle, streamAlive, tagVars, lockOwner>>

\* mutant: the function leaves its locked part without releasing the lock
Unlock_Keep(t) ==
    /\ pc[t] = "unlock"
    /\ pc' = [pc EXCEPT ![t] = "done"]
    /\ UNCHANGED <<frame, isoFrame, pending, uEarliestClusterTimestamp, nextHandle,
                   streamAlive, tagVars, loc, lockOwner, lastClusterOut, popLog, peeked>>

\* Unlock(pxStream->xLock), lines 104, 311, 353, 390, 431
Unlock(t) ==
    /\ pc[t] = "unlock"
    /\ lockOwner' = NoThread
    /\ pc' = [pc EXCEPT ![t] = "done"]
    /\ UNCHANGED <<frame, isoFrame, pending, uEarliestClusterTimestamp, nextHandle,
                   streamAlive, tagVars, loc, lastClusterOut, popLog, peeked>>

\* the function returns loc[t].val to its caller
Return(t) ==
    /\ pc[t] = "done"
    /\ pc' = [pc EXCEPT ![t] = "idle"]
    /\ loc' = [loc EXCEPT ![t] = IdleLoc]
    /\ UNCHANGED <<frame, isoFrame, pending, uEarliestClusterTimestamp, nextHandle,
                   streamAlive, tagVars, lockOwner, lastClusterOut, popLog, peeked>>

\* Kvs_streamGetMkvEbmlSegHdr up to its reads of the stream, lines 169-176
GetMkvEbmlSegHdr_Call(t) ==
    /\ CanCall(t)
    /\ pc' = [pc EXCEPT ![t] = "seg_read"]
    /\ loc' = [loc EXCEPT ![t] = [IdleLoc EXCEPT !.op = OP_SEGHDR]]
    /\ UNCHANGED <<frame, isoFrame, pending, uEarliestClusterTimestamp, nextHandle,
                   streamAlive, tagVars, lockOwner, lastClusterOut, popLog, peeked>>

\* lines 177-186: pMkvEbmlSeg and uMkvEbmlSegLen are read; Lock() is not called
GetMkvEbmlSegHdr_Read(t) ==
    /\ pc[t] = "seg_read"
    /\ loc' = [loc EXCEPT ![t].val =
                 [NoVal EXCEPT !.res = GetMkvEbmlSegHdrValue(FALSE).res,
                               !.total = GetMkvEbmlSegHdrValue(FALSE).len]]
    /\ pc' = [pc EXCEPT ![t] = "done"]
    /\ UNCHANGED <<frame, isoFrame, pending, uEarliestClusterTimestamp, nextHandle,
                   streamAlive, tagVars, lockOwner, lastClusterOut, popLog, peeked>>

\* Kvs_streamTermintate is entered, lines 157-159, once the other threads
\* have left stream.c
Termintate_Call(t) ==
    /\ CanCall(t)
    /\ \A u \in Threads : pc[u] = "idle"
    /\ pc' = [pc EXCEPT ![t] = "term_free"]
    /\ loc' = [loc EXCEPT ![t] = [IdleLoc EXCEPT !.op = OP_TERMINATE]]
    /\ UNCHANGED <<frame, isoFrame, pending, uEarliestClusterTimestamp, nextHandle,
                   streamAlive, tagVars, lockOwner, lastClusterOut, popLog, peeked>>

\* lines 161-163: pMkvEbmlSeg, the lock and the Stream_t are freed; Lock() is
\* not called
Termintate_Free(t) ==
    /\ pc[t] = "term_free"
    /\ streamAlive' = [streamAlive EXCEPT ![StreamA] = FALSE]
    /\ pc' = [pc EXCEPT ![t] = "done"]
    /\ UNCHANGED <<frame, isoFrame, pending, uEarliestClusterTimestamp, nextHandle,
                   tagVars, loc, lockOwner, lastClusterOut, popLog, peeked>>

(* ------------------------------ the model ------------------------------ *)
Init ==
    /\ frame = <<>>
    /\ pending = [s \in Streams |-> <<>>]
    /\ uEarliestClusterTimestamp = [s \in Streams |-> 0]
    /\ nextHandle = 1
    /\ streamAlive = [s \in Streams |-> TRUE]
    /\ firstClusterSeen = FALSE
    /\ calledAlready = FALSE
    /\ isoFrame = <<>>
    /\ isoStatics = [s \in Streams |-> [firstClusterSeen |-> FALSE, calledAlready |-> FALSE]]
    /\ tagged = <<>>
    /\ tagOrderKept = TRUE
    /\ appendCount = 0
    /\ pc = [t \in Threads |-> "idle"]
    /\ loc = [t \in Threads |-> IdleLoc]
    /\ lockOwner = NoThread
    /\ lastClusterOut = [s \in Streams |-> [any |-> FALSE, ts |-> 0]]
    /\ popLog = <<>>
    /\ peeked = NoPeek

LockResults == {LOCK_OK, LOCK_ERROR}

StreamNext(s) ==
    \/ \E in \in DataFrameIns : Kvs_streamAddDataFrame(s, FALSE, in, TRUE, LOCK_OK)
    \/ \E c \in FailingAdds : Kvs_streamAddDataFrame(s, c[1], c[2], c[3], c[4])
    \/ \E lockRes \in LockResults : Kvs_streamPop(s, lockRes)
    \/ \E lockRes \in LockResults : Kvs_streamPeek(s, lockRes)
    \/ \E lockRes \in LockResults : Kvs_streamIsEmpty(s, lockRes)
    \/ \E k \in TrackTypes, lockRes \in LockResults : Kvs_streamAvailOnTrack(s, k, lockRes)
    \/ \E outNull \in BOOLEAN, lockRes \in LockResults :
          Kvs_streamMemStatTotal(s, outNull, lockRes)
    \/ \E outNull \in BOOLEAN : Kvs_streamGetMkvEbmlSegHdr(s, outNull)
    \/ Kvs_streamTermintate(s)

Next == StreamNext(StreamA)

Spec == Init /\ [][Next]_vars

\* descriptors of the two-stream runs
TagFrameIns ==
    [uTimestampMs : {0}, xTrackType : {TRACK_VIDEO},
     xClusterType : ClusterTypes, uDataLen : {1}]

\* the calls on frame h whose allocations and tag rendering succeed
FrameNext(h) ==
    \/ Kvs_dataFrameGetContent(h, FALSE)
    \/ \E n \in TagsListLens, endOfStream \in BOOLEAN :
          Kvs_dataFrameAddTags(h, n, endOfStream, FALSE, TRUE, TRUE, FALSE)
    \/ \E n \in TagsListLens : addTagsAtEnd(h, n, FALSE, TRUE, TRUE, TRUE)
    \/ Kvs_dataFrameTerminate(h)

StreamsNext ==
    \/ \E s \in Streams, in \in TagFrameIns :
          Kvs_streamAddDataFrame(s, FALSE, in, TRUE, LOCK_OK)
    \/ \E s \in Streams : Kvs_streamPop(s, LOCK_OK)
    \/ \E s \in Streams : Kvs_streamPeek(s, LOCK_OK)
    \/ \E h \in 1 .. MaxFrames : FrameNext(h)

SpecStreams == Init /\ [][StreamsNext]_vars

\* descriptors of the two-thread runs
LockFrameIns ==
    [uTimestampMs : 0 .. MaxTs, xTrackType : {TRACK_VIDEO},
     xClusterType : ClusterTypes, uDataLen : {1}]

\* the consumer's calls of the locking functions
ConsumerCalls ==
    {<<op, TRACK_VIDEO>> : op \in LockingOps \ {OP_ADD}} \cup {<<OP_AVAIL, TRACK_AUDIO>>}

LockNext ==
    \/ \E in \in LockFrameIns : AddDataFrame_Call(Producer, FALSE, in, TRUE)
    \/ \E c \in {f \in FailingAdds : f[4] = LOCK_OK} :
          AddDataFrame_Call(Producer, c[1], c[2], c[3])
    \/ \E c \in ConsumerCalls : Locked_Call(Consumer, c[1], c[2])
    \/ \E t \in Threads, lockRes \in LockResults : Lock(t, lockRes)
    \/ AddDataFrame_Link(Producer)
    \/ AddDataFrame_Render(Producer)
    \/ AddDataFrame_Correct(Producer)
    \/ CriticalSection(Consumer)
    \/ \E t \in Threads : Unlock(t)
    \/ \E t \in Threads : Return(t)
    \/ GetMkvEbmlSegHdr_Call(Consumer)
    \/ GetMkvEbmlSegHdr_Read(Consumer)
    \/ Termintate_Call(Producer)
    \/ Termintate_Free(Producer)

SpecLock == Init /\ [][LockNext]_vars

\* the steps of thread t between Lock() returning LOCK_OK and Unlock()
\* returning: straight-line code and loops over the finite pending list
HolderStep(t) ==
    \/ AddDataFrame_Link(t)
    \/ AddDataFrame_Render(t)
    \/ AddDataFrame_Correct(t)
    \/ CriticalSection(t)
    \/ Unlock(t)

\* SpecLock with threads that keep running: a thread holding the lock takes
\* its next step, and Lock() lets a waiting thread in when the lock is free
\* again and again (a mutex that starves no waiter)
SpecLockLive ==
    /\ Init
    /\ [][LockNext]_vars
    /\ \A t \in Threads : WF_vars(HolderStep(t))
    /\ \A t \in Threads : SF_vars(Lock(t, LOCK_OK))

\* the ways a call of Kvs_dataFrameAddTags goes: <<an output pointer is NULL,
\* Mkv_initializeTagsHdr succeeds, malloc succeeds>>
AddTagsCalls ==
    {<<FALSE, TRUE, TRUE>>, <<TRUE, TRUE, TRUE>>, <<FALSE, FALSE, TRUE>>, <<FALSE, TRUE, FALSE>>}

\* the ways a call of addTagsAtEnd goes: <<an argument is NULL, malloc of the
\* tags list succeeds, Mkv_initializeTagsHdr succeeds, malloc of the data succeeds>>
AddTagsAtEndCalls ==
    {<<FALSE, TRUE, TRUE, TRUE>>, <<TRUE, TRUE, TRUE, TRUE>>, <<FALSE, FALSE, TRUE, TRUE>>,
     <<FALSE, TRUE, FALSE, TRUE>>, <<FALSE, TRUE, TRUE, FALSE>>}

\* one stream whose frames the consumer peeks, pops, injects tags into and frees
TagsNext ==
    \/ \E in \in TagFrameIns : Kvs_streamAddDataFrame(StreamA, FALSE, in, TRUE, LOCK_OK)
    \/ Kvs_streamPop(StreamA, LOCK_OK)
    \/ Kvs_streamPeek(StreamA, LOCK_OK)
    \/ Kvs_streamMemStatTotal(StreamA, FALSE, LOCK_OK)
    \/ \E h \in 1 .. MaxFrames : Kvs_dataFrameGetContent(h, FALSE)
    \/ \E h \in 1 .. MaxFrames, n \in TagsListLens, endOfStream \in BOOLEAN :
          Kvs_dataFrameAddTags(h, n, endOfStream, FALSE, TRUE, TRUE, TRUE)
    \/ \E h \in 1 .. MaxFrames, n \in TagsListLens, c \in AddTagsCalls :
          Kvs_dataFrameAddTags(h, n, FALSE, c[1], c[2], c[3], TRUE)
    \/ \E h \in 1 .. MaxFrames, n \in TagsListLens, c \in AddTagsAtEndCalls :
          addTagsAtEnd(h, n, c[1], c[2], c[3], c[4])
    \/ \E h \in 1 .. MaxFrames : Kvs_dataFrameTerminate(h)

SpecTags == Init /\ [][TagsNext]_vars

(* ------------------------------- claims -------------------------------- *)
\* the frame at position i of stream s's pending list
At(s, i) == frame[pending[s][i]]

\* the reference of position i (spec I2): the timestamp of the nearest
\* ClusterHead before it in pending, else the stream's baseline
RECURSIVE RefTimestamp(_, _)
RefTimestamp(s, i) ==
    IF i = 1 THEN uEarliestClusterTimestamp[s]
    ELSE IF At(s, i - 1).xClusterType = MKV_CLUSTER THEN At(s, i - 1).uTimestampMs
    ELSE RefTimestamp(s, i - 1)

NoClusterBefore(s, i) ==
    \A j \in 1 .. (i - 1) : At(s, j).xClusterType # MKV_CLUSTER

\* C1: the pending list is sorted by timestamp ascending, and among resident
\* frames of equal timestamp every Video frame comes before every non-Video one.
C1_PendingOrdered ==
    \A s \in Streams : \A i, j \in 1 .. Len(pending[s]) :
        i < j =>
            /\ At(s, i).uTimestampMs <= At(s, j).uTimestampMs
            /\ (At(s, i).uTimestampMs = At(s, j).uTimestampMs
                  /\ At(s, j).xTrackType = TRACK_VIDEO)
               => At(s, i).xTrackType = TRACK_VIDEO

\* C1 witness: after a pop, a Video frame sits before an Audio frame of the
\* same timestamp that was enqueued before it, with a later frame behind them.
C1_Witness ==
    /\ popLog # <<>>
    /\ \E i, j \in 1 .. Len(pending[StreamA]) :
          /\ i < j
          /\ At(StreamA, i).uTimestampMs = At(StreamA, j).uTimestampMs
          /\ At(StreamA, i).xTrackType = TRACK_VIDEO
          /\ At(StreamA, j).xTrackType = TRACK_AUDIO
          /\ pending[StreamA][i] > pending[StreamA][j]

\* C2 as stated: for every resident non-ClusterHead frame the rendered delta,
\* read as an unsigned 16-bit number with no reduction, plus its reference
\* timestamp equals the frame's timestamp exactly, for all timestamps.
C2_DeltaExact ==
    \A s \in Streams : \A i \in 1 .. Len(pending[s]) :
        At(s, i).xClusterType # MKV_CLUSTER
        => At(s, i).hdr.delta + RefTimestamp(s, i) = At(s, i).uTimestampMs

\* C2 amended: the rendered delta of every resident non-ClusterHead frame is a
\* 16-bit value congruent modulo 2^16 to its timestamp minus its reference;
\* delta plus reference equals the timestamp exactly when that difference
\* lies in 0..65535.
C2_DeltaMod16 ==
    \A s \in Streams : \A i \in 1 .. Len(pending[s]) :
        At(s, i).xClusterType # MKV_CLUSTER
        => LET d == At(s, i).uTimestampMs - RefTimestamp(s, i) IN
           /\ At(s, i).hdr.rendered
           /\ At(s, i).hdr.delta \in 0 .. 65535
           /\ (At(s, i).hdr.delta - d) % 65536 = 0
           /\ (d \in 0 .. 65535) => At(s, i).hdr.delta + RefTimestamp(s, i) = At(s, i).uTimestampMs

\* C2 witness: a resident non-ClusterHead frame behind a resident ClusterHead
\* that was enqueued after it, and one whose difference to its reference does
\* not fit 16 bits.
C2_Witness ==
    \E i, j, k \in 1 .. Len(pending[StreamA]) :
        /\ i < j
        /\ At(StreamA, i).xClusterType = MKV_CLUSTER
        /\ At(StreamA, j).xClusterType # MKV_CLUSTER
        /\ pending[StreamA][i] > pending[StreamA][j]
        /\ At(StreamA, k).xClusterType # MKV_CLUSTER
        /\ At(StreamA, k).uTimestampMs - RefTimestamp(StreamA, k) \notin 0 .. 65535

\* C3 as stated: every resident ClusterHead frame has a rendered delta of 0,
\* whichever path inserted it.
C3_ClusterDeltaZero ==
    \A s \in Streams : \A i \in 1 .. Len(pending[s]) :
        At(s, i).xClusterType = MKV_CLUSTER => At(s, i).hdr.delta = 0

\* handle h is linked in stream s's pending list
Linked(s, h) == \E i \in 1 .. Len(pending[s]) : pending[s][i] = h

\* thread t takes a step of a Kvs_streamAddDataFrame call before Lock() has
\* returned LOCK_OK: the only steps a failing call ever takes
StepBeforeLocked(t) ==
    /\ pc'[t] # pc[t]
    /\ loc'[t].op = OP_ADD
    /\ pc[t] \in {"idle", "lock"}
    /\ pc'[t] \in {"lock", "done"}

\* C4: enqueue is all-or-nothing. A failed Kvs_streamAddDataFrame (NULL
\* argument, header length 0, kvsMalloc failure, Lock failure) returns NULL,
\* has freed the frame it allocated, and none of its steps changes pending,
\* the baseline or another frame; a successful one returns a frame that was
\* linked with its header rendered, and a linked frame whose header is not
\* rendered exists only while the enqueuing thread holds the lock and is
\* about to render it, so no other locked operation can see one.
C4_EnqueueAllOrNothing ==
    /\ [](\A i \in 1 .. Len(pending[StreamA]) :
            ~At(StreamA, i).hdr.rendered =>
                /\ lockOwner = Producer
                /\ pc[Producer] = "add_render"
                /\ loc[Producer].h = pending[StreamA][i])
    /\ [](\A t \in Threads :
            (pc[t] = "done" /\ loc[t].op = OP_ADD) =>
                IF loc[t].val.h = NULL
                THEN /\ loc[t].h \notin DOMAIN frame
                     /\ ~Linked(StreamA, loc[t].h)
                ELSE /\ loc[t].val.h \in DOMAIN frame
                     /\ frame[loc[t].val.h].hdr.rendered
                     /\ \/ Linked(StreamA, loc[t].val.h)
                        \/ \E k \in 1 .. Len(popLog) : popLog[k] = loc[t].val.h)
    /\ [][\A t \in Threads :
            StepBeforeLocked(t) =>
                /\ pending' = pending
                /\ uEarliestClusterTimestamp' = uEarliestClusterTimestamp
                /\ \A h \in DOMAIN frame \ {loc[t].h} :
                      h \in DOMAIN frame' /\ frame'[h] = frame[h]]_vars

\* C4 witness: an enqueue has failed on Lock() while a frame is resident and
\* the consumer is inside a call
C4_Witness ==
    /\ pc[Producer] = "done"
    /\ loc[Producer].op = OP_ADD
    /\ loc[Producer].lock = LOCK_ERROR
    /\ loc[Producer].val.h = NULL
    /\ pending[StreamA] # <<>>
    /\ pc[Consumer] # "idle"

\* C5 as stated: when Lock() fails in a locking function, what the function
\* hands back differs from everything it hands back when Lock() succeeds, be
\* the queue empty or as it is now
C5_LockFailureDistinct ==
    \A t \in Threads :
        (pc[t] = "done" /\ loc[t].lock = LOCK_ERROR) =>
            IF loc[t].op = OP_ADD
            THEN loc[t].val.h = NULL
            ELSE \A list \in {<<>>, pending[StreamA]} :
                    loc[t].val # LockedValue(loc[t].op, loc[t].arg, frame, list)

\* the steps that read or write xDataFramePending, uEarliestClusterTimestamp,
\* pMkvEbmlSeg or uMkvEbmlSegLen: a thread at one of these is about to take it
AccessPcs == {"add_link", "add_render", "add_correct", "cs", "seg_read", "term_free"}

\* C6 as stated: every read or write of pending, the baseline or the segment
\* header is made by the thread that holds the stream's lock, so no two of
\* them overlap
C6_AccessUnderLock ==
    /\ \A t \in Threads : pc[t] \in AccessPcs => lockOwner = t
    /\ \A t, u \in Threads : (pc[t] \in AccessPcs /\ pc[u] \in AccessPcs) => t = u

\* C7: once a ClusterHead of timestamp T has been popped, an enqueue of a
\* non-ClusterHead frame that lands with no ClusterHead before it renders a
\* delta relative to T, the timestamp of the most recently popped ClusterHead.
C7_BaselineAdvance ==
    [][\A s \in Streams :
         (/\ nextHandle' = nextHandle + 1
          /\ Len(pending'[s]) = Len(pending[s]) + 1
          /\ lastClusterOut[s].any)
         => \A i \in 1 .. Len(pending'[s]) :
              (/\ pending'[s][i] = nextHandle
               /\ frame'[nextHandle].xClusterType # MKV_CLUSTER
               /\ \A j \in 1 .. (i - 1) :
                     frame'[pending'[s][j]].xClusterType # MKV_CLUSTER)
              => frame'[nextHandle].hdr.delta =
                   (frame'[nextHandle].uTimestampMs - lastClusterOut[s].ts) % 65536]_vars

\* C7 witness: two ClusterHeads were popped, the later with a timestamp other
\* than 0 and than the earlier one's, and a non-ClusterHead frame enqueued
\* after both is resident with no ClusterHead before it.
C7_Witness ==
    /\ Len(popLog) >= 2
    /\ frame[popLog[1]].xClusterType = MKV_CLUSTER
    /\ frame[popLog[2]].xClusterType = MKV_CLUSTER
    /\ frame[popLog[2]].uTimestampMs # frame[popLog[1]].uTimestampMs
    /\ frame[popLog[2]].uTimestampMs # 0
    /\ \E i \in 1 .. Len(pending[StreamA]) :
          /\ pending[StreamA][i] > popLog[2]
          /\ At(StreamA, i).xClusterType # MKV_CLUSTER
          /\ NoClusterBefore(StreamA, i)

\* C8: the baseline uEarliestClusterTimestamp is the timestamp of the most
\* recently popped ClusterHead, or 0 if none was popped since creation; no
\* other handler and no pop of a non-ClusterHead changes it.
C8_BaselineIsLastClusterOut ==
    \A s \in Streams :
        uEarliestClusterTimestamp[s] =
            IF lastClusterOut[s].any THEN lastClusterOut[s].ts ELSE 0

\* C8 witness: a ClusterHead with a timestamp other than 0 was popped, a
\* non-ClusterHead of another timestamp was popped after it, and frames
\* enqueued since are resident.
C8_Witness ==
    /\ Len(popLog) >= 2
    /\ frame[popLog[1]].xClusterType = MKV_CLUSTER
    /\ frame[popLog[1]].uTimestampMs # 0
    /\ frame[popLog[2]].xClusterType # MKV_CLUSTER
    /\ frame[popLog[2]].uTimestampMs # frame[popLog[1]].uTimestampMs
    /\ pending[StreamA] # <<>>

\* C9: a frame that Kvs_streamPop returned is no member of pending: pop and
\* peek do not return it again, Kvs_streamAvailOnTrack does not count it, and
\* no frame is returned by pop twice.
C9_PoppedIsGone ==
    \A s \in Streams :
        /\ \A a, b \in 1 .. Len(popLog) : a # b => popLog[a] # popLog[b]
        /\ \A a \in 1 .. Len(popLog), i \in 1 .. Len(pending[s]) : pending[s][i] # popLog[a]
        /\ \A a \in 1 .. Len(popLog) : PopValue(pending[s], LOCK_OK) # popLog[a]
        /\ \A k \in TrackTypes :
              AvailOnTrackValue(frame, pending[s], k, LOCK_OK)
              => \E h \in DOMAIN frame :
                    /\ frame[h].xTrackType = k
                    /\ frame[h].stream = s
                    /\ \A a \in 1 .. Len(popLog) : popLog[a] # h

\* C9 witness: a frame was popped while another stays resident, and no
\* resident frame has the popped frame's track.
C9_Witness ==
    /\ popLog # <<>>
    /\ pending[StreamA] # <<>>
    /\ \A i \in 1 .. Len(pending[StreamA]) :
          At(StreamA, i).xTrackType # frame[popLog[1]].xTrackType

\* C10 as stated: the tag-injection results of one stream do not depend on the
\* calls made on another stream's frames: every frame's header and payload
\* are what they would be had the calls on the other stream never been made
\* (isoFrame: the same calls run with statics of the frame's own stream).
C10_StreamsIndependent ==
    \A h \in DOMAIN frame :
        /\ frame[h].hdr = isoFrame[h].hdr
        /\ frame[h].uMkvHdrLen = isoFrame[h].uMkvHdrLen
        /\ frame[h].dataTags = isoFrame[h].dataTags
        /\ frame[h].uDataLen = isoFrame[h].uDataLen

\* the frames Kvs_dataFrameAddTags succeeded on so far include a ClusterHead
ClusterTagged == \E k \in 1 .. Len(tagged) : tagged[k].xClusterType = MKV_CLUSTER

\* C11: with one stream, and Kvs_dataFrameAddTags applied once to each frame
\* in dequeue order, a successful call leaves the first ClusterHead as it
\* was, gives every later ClusterHead a header made of the rendered tags
\* block followed by its original header (length: tags-block size plus the
\* original length, payload untouched), and leaves a non-ClusterHead frame
\* as it was.
C11_BoundaryInjection ==
    [][Len(tagged') = Len(tagged) + 1 =>
        LET h == tagged'[Len(tagged')].h
            f == frame[h]
            g == frame'[h]
        IN IF f.xClusterType = MKV_CLUSTER /\ ClusterTagged
           THEN /\ Len(g.hdr.tags) = Len(f.hdr.tags) + 1
                /\ Tail(g.hdr.tags) = f.hdr.tags
                /\ \E n \in TagsListLens, eof \in BOOLEAN :
                      Head(g.hdr.tags) =
                          Mkv_initializeTagsHdr(IF eof THEN n + 1 ELSE n, eof)
                /\ [g.hdr EXCEPT !.tags = f.hdr.tags] = f.hdr
                /\ g.uMkvHdrLen = Head(g.hdr.tags).size + f.uMkvHdrLen
                /\ g.pData = f.pData /\ g.uDataLen = f.uDataLen
                /\ g.dataTags = f.dataTags
           ELSE g = f]_vars

\* C11 witness: a ClusterHead, a SimpleBlock and a second ClusterHead were
\* dequeued and tagged in that order; only the second ClusterHead carries a
\* tags block
C11_Witness ==
    /\ tagOrderKept
    /\ Len(tagged) = 3
    /\ tagged[1].xClusterType = MKV_CLUSTER
    /\ tagged[2].xClusterType = MKV_SIMPLE_BLOCK
    /\ tagged[3].xClusterType = MKV_CLUSTER
    /\ \A k \in 1 .. 3 : tagged[k].h \in DOMAIN frame
    /\ frame[tagged[1].h].hdr.tags = <<>>
    /\ frame[tagged[2].h].hdr.tags = <<>>
    /\ Len(frame[tagged[3].h].hdr.tags) = 1

\* C12 as stated: addTagsAtEnd is one-shot. The tags block has been appended
\* to a payload at most once, and a call that returns KVS_ERRNO_NONE (valid
\* arguments, made in the present state) either appends the block to the
\* frame's payload or comes after a call that did.
C12_TrailingOneShot ==
    /\ appendCount <= 1
    /\ \A h \in DOMAIN frame, n \in TagsListLens :
          LET f == frame[h]
              out == AddTagsAtEndOut(f, calledAlready, n, FALSE, TRUE, TRUE, TRUE)
          IN out.res = KVS_ERRNO_NONE =>
                \/ /\ out.f.dataTags = f.dataTags \o <<Mkv_initializeTagsHdr(n + 1, TRUE)>>
                   /\ out.f.uDataLen = f.uDataLen + Mkv_initializeTagsHdr(n + 1, TRUE).size
                \/ appendCount >= 1

\* C13: when Kvs_dataFrameAddTags or addTagsAtEnd returns an error (a NULL
\* argument, a failed Mkv_initializeTagsHdr, a failed malloc), the frame is
\* field for field what it was: header, header length, payload pointer,
\* payload length, and no buffer of it was freed. A step of addTagsAtEnd that
\* sets its static and appends nothing (the failing call) changes no frame.
C13_FailedInjectionKeepsFrame ==
    /\ [](\A h \in DOMAIN frame, n \in TagsListLens :
            /\ \A c \in AddTagsCalls, eof \in BOOLEAN :
                  LET out == AddTagsOut(frame[h], firstClusterSeen, n, eof, c[1], c[2], c[3])
                  IN out.res # KVS_ERRNO_NONE => out.f = frame[h]
            /\ \A c \in AddTagsAtEndCalls :
                  LET out == AddTagsAtEndOut(frame[h], calledAlready, n, c[1], c[2], c[3], c[4])
                  IN out.res # KVS_ERRNO_NONE => out.f = frame[h])
    /\ [][(calledAlready' # calledAlready /\ appendCount' = appendCount)
            => frame' = frame]_vars

\* C13 witness: addTagsAtEnd has failed after its argument check (its static
\* is set and nothing was ever appended) on a stream that holds a ClusterHead
\* already given a tags block
C13_Witness ==
    /\ calledAlready
    /\ appendCount = 0
    /\ \E h \in DOMAIN frame : frame[h].hdr.tags # <<>>
    /\ \A h \in DOMAIN frame : ~frame[h].callerDataFreed /\ frame[h].pData = "caller"

\* handle h was returned by Kvs_streamPop
Popped(h) == \E k \in 1 .. Len(popLog) : popLog[k] = h

\* C14 as stated: once Kvs_streamTermintate has run on a stream, no frame that
\* Kvs_streamAddDataFrame allocated on it is still allocated, unless it was
\* dequeued before
C14_TerminateReleasesFrames ==
    \A s \in Streams :
        ~streamAlive[s] =>
            \A h \in DOMAIN frame : frame[h].stream = s => Popped(h)

\* the bytes a frame's header and payload hold, counted from their content:
\* the cluster header and the tags blocks before it, the caller's payload (one
\* byte in every descriptor) and the tags blocks behind it
RECURSIVE BlocksSize(_)
BlocksSize(blocks) ==
    IF blocks = <<>> THEN 0 ELSE Head(blocks).size + BlocksSize(Tail(blocks))

HeaderBytes(f) == Mkv_getClusterHdrLen(f.xClusterType) + BlocksSize(f.hdr.tags)

PayloadBytes(f) == 1 + BlocksSize(f.dataTags)

\* the sum over the frames of list, last to first
RECURSIVE ResidentBytes(_, _)
ResidentBytes(fr, list) ==
    IF list = <<>> THEN 0
    ELSE ResidentBytes(fr, SubSeq(list, 1, Len(list) - 1))
         + PayloadBytes(fr[list[Len(list)]]) + HeaderBytes(fr[list[Len(list)]])
         + SizeofDataFrame

\* what Kvs_streamMemStatTotal stores for frame table fr and pending list `list`
MemTotal(fr, list) == MemStatTotalValue(fr, list, FALSE, LOCK_OK).total

\* C15: Kvs_streamMemStatTotal stores sizeof(Stream_t) plus the segment header
\* length plus, over exactly the frames resident in pending, payload length +
\* current header length + sizeof(DataFrame_t); an enqueue raises the total
\* by the new frame's share and a dequeue lowers it by the dequeued frame's.
C15_MemStatTotal ==
    /\ [](MemTotal(frame, pending[StreamA])
            = SizeofStream + SegLen + ResidentBytes(frame, pending[StreamA]))
    /\ [][pending'[StreamA] # pending[StreamA] =>
            IF Len(pending'[StreamA]) > Len(pending[StreamA])
            THEN MemTotal(frame', pending'[StreamA])
                    = MemTotal(frame, pending[StreamA])
                      + PayloadBytes(frame'[nextHandle]) + HeaderBytes(frame'[nextHandle])
                      + SizeofDataFrame
            ELSE MemTotal(frame', pending'[StreamA])
                    = MemTotal(frame, pending[StreamA])
                      - PayloadBytes(frame[Head(pending[StreamA])])
                      - HeaderBytes(frame[Head(pending[StreamA])])
                      - SizeofDataFrame]_vars

\* C15 witness: a frame was dequeued, and of the two frames resident one has
\* a tags block before its header and one a tags block behind its payload
C15_Witness ==
    /\ popLog # <<>>
    /\ Len(pending[StreamA]) = 2
    /\ \E i \in 1 .. 2 : At(StreamA, i).hdr.tags # <<>>
    /\ \E i \in 1 .. 2 : At(StreamA, i).dataTags # <<>>

\* thread t runs the locked part of prvStreamPop for function op
PopStep(t, op) == pc[t] = "cs" /\ pc'[t] = "unlock" /\ loc[t].op = op

\* C16: Kvs_streamPeek returns the head of pending and changes neither
\* pending, nor a frame, nor the baseline; Kvs_streamPop and Kvs_streamPeek on
\* an empty queue return NULL and leave pending and the baseline as they were.
C16_PeekLeavesQueue ==
    [][\A t \in Threads :
          /\ PopStep(t, OP_PEEK) =>
                /\ pending' = pending
                /\ frame' = frame
                /\ uEarliestClusterTimestamp' = uEarliestClusterTimestamp
                /\ loc'[t].val.h = IF pending[StreamA] = <<>> THEN NULL
                                   ELSE Head(pending[StreamA])
          /\ (PopStep(t, OP_POP) /\ pending[StreamA] = <<>>) =>
                /\ pending' = pending
                /\ frame' = frame
                /\ uEarliestClusterTimestamp' = uEarliestClusterTimestamp
                /\ loc'[t].val.h = NULL]_vars

\* C16 witness: a peek has returned a ClusterHead whose timestamp is not the
\* baseline, and the frame is still the head of pending
C16_Witness ==
    /\ pc[Consumer] = "done"
    /\ loc[Consumer].op = OP_PEEK
    /\ loc[Consumer].val.h # NULL
    /\ frame[loc[Consumer].val.h].xClusterType = MKV_CLUSTER
    /\ frame[loc[Consumer].val.h].uTimestampMs # uEarliestClusterTimestamp[StreamA]
    /\ pending[StreamA][1] = loc[Consumer].val.h

\* C17: Kvs_streamAvailOnTrack(k) returns true exactly when a frame resident
\* in pending has track kind k: false on an empty queue, true once a frame of
\* kind k is enqueued, false again when all frames of kind k are dequeued.
C17_AvailOnTrack ==
    \A k \in TrackTypes :
        AvailOnTrackValue(frame, pending[StreamA], k, LOCK_OK)
            = (\E i \in 1 .. Len(pending[StreamA]) : At(StreamA, i).xTrackType = k)

\* C17 witness: an Audio frame was dequeued and the frames still resident,
\* two at least, are all Video: the call returns false for Audio, true for Video
C17_Witness ==
    /\ \E k \in 1 .. Len(popLog) : frame[popLog[k]].xTrackType = TRACK_AUDIO
    /\ Len(pending[StreamA]) >= 2
    /\ \A i \in 1 .. Len(pending[StreamA]) : At(StreamA, i).xTrackType = TRACK_VIDEO
    /\ ~AvailOnTrackValue(frame, pending[StreamA], TRACK_AUDIO, LOCK_OK)
    /\ AvailOnTrackValue(frame, pending[StreamA], TRACK_VIDEO, LOCK_OK)

\* C18 as stated: no function of stream.c frees a payload buffer the
\* enqueueing caller supplied
C18_PayloadNeverFreed ==
    \A h \in DOMAIN frame : ~frame[h].callerDataFreed

\* new frame n belongs before resident frame e
GoesBefore(n, e) ==
    \/ n.uTimestampMs < e.uTimestampMs
    \/ (n.uTimestampMs = e.uTimestampMs /\ n.xTrackType = TRACK_VIDEO)

\* C19: a successful Kvs_streamAddDataFrame links the new frame immediately
\* before the first resident frame, from the head, that has a later
\* timestamp, or the same timestamp when the new frame is Video; at the tail
\* when there is none. The frames resident before keep their order, none is
\* removed or duplicated.
C19_InsertPosition ==
    [][nextHandle' = nextHandle + 1 =>
        LET h == nextHandle
            n == frame'[h]
            old == pending[StreamA]
        IN \E p \in 1 .. Len(old) + 1 :
              /\ pending'[StreamA]
                    = SubSeq(old, 1, p - 1) \o <<h>> \o SubSeq(old, p, Len(old))
              /\ \A j \in 1 .. p - 1 : ~GoesBefore(n, frame[old[j]])
              /\ p <= Len(old) => GoesBefore(n, frame[old[p]])]_vars

\* C19 witness: the third frame enqueued sits between the two enqueued before
C19_Witness ==
    /\ Len(pending[StreamA]) = 3
    /\ pending[StreamA][2] = 3
    /\ At(StreamA, 1).uTimestampMs < At(StreamA, 2).uTimestampMs

\* the timestamp of the nearest ClusterHead at or before item i of list
RECURSIVE ClusterTsAtOrBefore(_, _, _)
ClusterTsAtOrBefore(fr, list, i) ==
    IF fr[list[i]].xClusterType = MKV_CLUSTER THEN fr[list[i]].uTimestampMs
    ELSE ClusterTsAtOrBefore(fr, list, i - 1)

\* item i of list has a ClusterHead at or before it
ClusterAtOrBefore(fr, list, i) ==
    \E j \in 1 .. i : fr[list[j]].xClusterType = MKV_CLUSTER

\* the step is a Kvs_streamAddDataFrame that links a ClusterHead before a
\* resident frame
ClusterInsertedBefore ==
    /\ nextHandle' = nextHandle + 1
    /\ frame'[nextHandle].xClusterType = MKV_CLUSTER
    /\ pending'[StreamA][Len(pending'[StreamA])] # nextHandle

\* C20 as stated: right after an enqueue that inserts a ClusterHead before a
\* resident frame, every resident frame at or after the first ClusterHead of
\* pending has a rendered delta equal to its timestamp minus the timestamp of
\* the nearest ClusterHead at or before it; the frames before the first
\* ClusterHead keep their header.
C20_CorrectionExact ==
    [][ClusterInsertedBefore =>
        \A i \in 1 .. Len(pending'[StreamA]) :
            LET h == pending'[StreamA][i] IN
            IF ClusterAtOrBefore(frame', pending'[StreamA], i)
            THEN frame'[h].hdr.delta
                    = frame'[h].uTimestampMs
                      - ClusterTsAtOrBefore(frame', pending'[StreamA], i)
            ELSE frame'[h].hdr = frame[h].hdr]_vars

\* C20 amended: the rendered delta is that difference as an unsigned 16-bit
\* value (the difference modulo 2^16)
C20_CorrectionMod16 ==
    [][ClusterInsertedBefore =>
        \A i \in 1 .. Len(pending'[StreamA]) :
            LET h == pending'[StreamA][i] IN
            IF ClusterAtOrBefore(frame', pending'[StreamA], i)
            THEN /\ frame'[h].hdr.rendered
                 /\ frame'[h].hdr.delta
                       = Uint16(frame'[h].uTimestampMs
                                - ClusterTsAtOrBefore(frame', pending'[StreamA], i))
            ELSE frame'[h].hdr = frame[h].hdr]_vars

\* C20 witness: the frame enqueued last is a ClusterHead that is not the
\* tail; behind it a frame is more than 65535 ms after its ClusterHead and a
\* frame before it keeps a header rendered against the baseline
C20_Witness ==
    /\ Len(pending[StreamA]) = 3
    /\ pending[StreamA][2] = nextHandle - 1
    /\ At(StreamA, 2).xClusterType = MKV_CLUSTER
    /\ At(StreamA, 1).xClusterType = MKV_SIMPLE_BLOCK
    /\ At(StreamA, 3).uTimestampMs - At(StreamA, 2).uTimestampMs > 65535
    /\ At(StreamA, 3).hdr.delta
          = Uint16(At(StreamA, 3).uTimestampMs - At(StreamA, 2).uTimestampMs)

\* the reference of item i of list: the timestamp of the nearest ClusterHead
\* before it, else the baseline base
DeltaRef(fr, list, base, i) ==
    IF i > 1 /\ ClusterAtOrBefore(fr, list, i - 1)
    THEN ClusterTsAtOrBefore(fr, list, i - 1)
    ELSE base

\* the step renders the header of item i of the new pending list: the frame
\* is the new one, or the correction pass runs and has reached a ClusterHead
RenderedNow(i) ==
    \/ pending'[StreamA][i] = nextHandle
    \/ (ClusterInsertedBefore /\ ClusterAtOrBefore(frame', pending'[StreamA], i))

\* C21: the delta rendered for a non-ClusterHead frame at insertion or in a
\* correction pass is (timestamp - reference) reduced modulo 2^16 to a value
\* of 0..65535: a difference of 65536 or more loses its high bits, and a
\* timestamp below the reference gives 2^16 - (reference - timestamp),
\* reduced modulo 2^16, and no error.
C21_DeltaWraps ==
    [][nextHandle' = nextHandle + 1 =>
        /\ Len(pending'[StreamA]) = Len(pending[StreamA]) + 1
        /\ \A i \in 1 .. Len(pending'[StreamA]) :
             LET f == frame'[pending'[StreamA][i]]
                 ref == DeltaRef(frame', pending'[StreamA],
                                 uEarliestClusterTimestamp[StreamA], i)
                 d == f.uTimestampMs - ref
             IN (RenderedNow(i) /\ f.xClusterType # MKV_CLUSTER) =>
                  /\ f.hdr.rendered
                  /\ f.hdr.delta \in 0 .. 65535
                  /\ f.hdr.delta = d % 65536
                  /\ d >= 65536 => f.hdr.delta = d - 65536 * (d \div 65536)
                  /\ d < 0 => f.hdr.delta = (65536 - (ref - f.uTimestampMs)) % 65536]_vars

\* C21 witness: behind a dequeued ClusterHead of timestamp 1, a resident
\* non-ClusterHead frame of timestamp 0 carries the delta 65535 and one more
\* than 65535 ms after the reference carries the difference less 65536
C21_Witness ==
    /\ uEarliestClusterTimestamp[StreamA] = 1
    /\ \E i, k \in 1 .. Len(pending[StreamA]) :
          /\ At(StreamA, i).xClusterType # MKV_CLUSTER
          /\ At(StreamA, i).uTimestampMs = 0
          /\ RefTimestamp(StreamA, i) = 1
          /\ At(StreamA, i).hdr.delta = 65535
          /\ At(StreamA, k).xClusterType # MKV_CLUSTER
          /\ At(StreamA, k).uTimestampMs - RefTimestamp(StreamA, k) = 65536
          /\ At(StreamA, k).hdr.delta = 0

\* C22 as stated: when the consumer peeks frame F and then dequeues with no
\* other dequeue in between, whatever the producer enqueues meanwhile, the
\* dequeue returns F and F's header is what it was at the peek.
C22_PeekThenPopSame ==
    [][(PopStep(Consumer, OP_POP) /\ peeked.h # NULL) =>
          /\ loc'[Consumer].val.h = peeked.h
          /\ frame[peeked.h].hdr = peeked.hdr]_vars

\* C22 amended: the dequeue, once it holds the lock, returns F exactly when
\* no enqueue linked a frame before F since the peek; otherwise it returns
\* the head of pending, a frame enqueued after the peek. F's header is what
\* it was at the peek unless an enqueue since then ran the correction pass.
C22_PeekThenPopUnlessOvertaken ==
    [][(PopStep(Consumer, OP_POP) /\ peeked.h # NULL) =>
          /\ loc'[Consumer].val.h = Head(pending[StreamA])
          /\ (loc'[Consumer].val.h = peeked.h) <=> ~peeked.before
          /\ peeked.before => loc'[Consumer].val.h > peeked.h
          /\ ~peeked.pass => frame[peeked.h].hdr = peeked.hdr
          /\ frame[peeked.h].hdr # peeked.hdr =>
                \E h \in DOMAIN frame :
                    h > peeked.h /\ frame[h].xClusterType = MKV_CLUSTER]_vars

\* C22 witness: the consumer is about to dequeue after a peek of F; since the
\* peek the producer has linked a ClusterHead before F, and the correction
\* pass has changed F's header
C22_Witness ==
    /\ pc[Consumer] = "cs"
    /\ loc[Consumer].op = OP_POP
    /\ peeked.h # NULL
    /\ peeked.before
    /\ Head(pending[StreamA]) # peeked.h
    /\ frame[peeked.h].hdr # peeked.hdr

\* the places of a function between Lock() returning LOCK_OK and Unlock()
HeldPcs == {"add_link", "add_render", "add_correct", "cs", "unlock"}

C24_OnlyClusterInsertRewrites ==
    [][(pending' # pending \/ nextHandle' # nextHandle \/ frame' # frame) =>
          \/ ClusterInsertedBefore
          \/ \A h \in DOMAIN frame :
                /\ h \in DOMAIN frame'
                /\ frame'[h].hdr = frame[h].hdr
                /\ frame'[h].uMkvHdrLen = frame[h].uMkvHdrLen]_vars

\* C24 witness: the frame enqueued last is a SimpleBlock linked at the head,
\* before a ClusterHead that still carries the non-zero delta it was appended
\* with
C24_Witness ==
    /\ Len(pending[StreamA]) = 3
    /\ pending[StreamA][1] = nextHandle - 1
    /\ nextHandle - 1 = 3
    /\ At(StreamA, 1).xClusterType = MKV_SIMPLE_BLOCK
    /\ \E i \in 2 .. 3 :
          /\ At(StreamA, i).xClusterType = MKV_CLUSTER
          /\ At(StreamA, i).hdr.delta # 0

\* frames f and g have the same timestamp and are both Video (video TRUE) or
\* both of another track (video FALSE)
SameTsTrack(f, g, video) ==
    /\ f.uTimestampMs = g.uTimestampMs
    /\ (f.xTrackType = TRACK_VIDEO) = video
    /\ (g.xTrackType = TRACK_VIDEO) = video

\* C25: among frames of one timestamp the queue is not first-in-first-out
\* for Video. A Video frame is linked before every resident frame of its
\* timestamp, earlier Video frames included, so resident Video frames of one
\* timestamp stand, and are dequeued, in reverse enqueue order; resident
\* non-Video frames of one timestamp stand, and are dequeued, in enqueue order.
C25_VideoTieReversed ==
    /\ [](\A i, j \in 1 .. Len(pending[StreamA]) :
            i < j =>
              /\ SameTsTrack(At(StreamA, i), At(StreamA, j), TRUE)
                    => pending[StreamA][i] > pending[StreamA][j]
              /\ SameTsTrack(At(StreamA, i), At(StreamA, j), FALSE)
                    => pending[StreamA][i] < pending[StreamA][j])
    /\ [][(nextHandle' = nextHandle + 1 /\ frame'[nextHandle].xTrackType = TRACK_VIDEO) =>
            \A i, j \in 1 .. Len(pending'[StreamA]) :
               (/\ pending'[StreamA][i] = nextHandle
                /\ j # i
                /\ frame'[pending'[StreamA][j]].uTimestampMs = frame'[nextHandle].uTimestampMs)
               => i < j]_vars
    /\ [][Len(popLog') = Len(popLog) + 1 =>
            LET h == popLog'[Len(popLog')] IN
            \A i \in 1 .. Len(pending'[StreamA]) :
               LET g == pending'[StreamA][i] IN
               /\ SameTsTrack(frame[h], frame[g], TRUE) => h > g
               /\ SameTsTrack(frame[h], frame[g], FALSE) => h < g]_vars

\* C25 witness: of two Video frames of one timestamp the second enqueued was
\* dequeued first, then the first; a frame of another track and the same
\* timestamp, enqueued last, is still resident
C25_Witness ==
    /\ popLog = <<2, 1>>
    /\ {1, 2} \subseteq DOMAIN frame
    /\ SameTsTrack(frame[1], frame[2], TRUE)
    /\ pending[StreamA] = <<3>>
    /\ frame[3].xTrackType = TRACK_AUDIO
    /\ frame[3].uTimestampMs = frame[1].uTimestampMs

\* C26 as stated: whenever Kvs_dataFrameAddTags or addTagsAtEnd, called on an
\* allocated frame with output pointers that are not NULL, returns
\* KVS_ERRNO_NONE, it has stored the frame's header, header length, payload
\* and payload length through them; calls on a non-ClusterHead frame and
\* calls of addTagsAtEnd after the first included.
C26_SuccessSetsOutputs ==
    \A h \in DOMAIN frame, n \in TagsListLens :
        /\ \A c \in AddTagsCalls, eof \in BOOLEAN :
              LET out == AddTagsOut(frame[h], firstClusterSeen, n, eof, FALSE, c[2], c[3])
              IN out.res = KVS_ERRNO_NONE => out.set
        /\ \A c \in AddTagsAtEndCalls :
              LET out == AddTagsAtEndOut(frame[h], calledAlready, n, FALSE, c[2], c[3], c[4])
              IN out.res = KVS_ERRNO_NONE => out.set

====
